---- MODULE Spec2Model ----
(***************************************************************************)
(* The definition cache of metric_tank (package defcache): the Identity    *)
(* Map ById, the Definition Store defs and the Pattern Index ByKey behind  *)
(* one sync.RWMutex, with Backfill (bootstrap), concurrent Add callers,    *)
(* the Prune goroutine and Get.                                            *)
(*                                                                         *)
(* The packages idx (Pattern Index) and schema (MetricDefinition) are not  *)
(* part of the source at hand; their operations are modelled from the      *)
(* design document and are marked so where they are defined.               *)
(***************************************************************************)
EXTENDS Integers, Sequences, FiniteSets, TLC

(***************************************************************************)
(* Bounds of the model.                                                    *)
(***************************************************************************)
\* how many operations one behaviour follows: the definitions the durable
\* store returns to Backfill, the Add calls, the calls of the query path and
\* the ticks of the prune timer
MaxOps == 3

(***************************************************************************)
(* Program constants.                                                      *)
(***************************************************************************)
\* Add: mdef.LastUpdate < metric.Time-21600
FreshnessWindow == 21600
\* Prune: dc.ByKey.Prune(0.20), as a percentage
PrunePct == 20

(***************************************************************************)
(* Inputs.  An external id is a hash of the identifying metadata of a      *)
(* series, so it determines the tenant and the name; two series may share  *)
(* tenant and name and differ in other metadata (e1 and e2 here).          *)
(***************************************************************************)
ExtIds == {"e1", "e2", "e3"}

\* the wildcard of a pattern
Wild == "*"

NameCpu == <<"a", ".", "c", "p", "u">>
NameMem == <<"a", ".", "m", "e", "m">>

\* metric.OrgId / def.OrgId; -1 is the shared scope
OrgOf(e) == IF e = "e3" THEN -1 ELSE 1

\* metric.Name / def.Name
NameOf(e) == IF e = "e3" THEN NameMem ELSE NameCpu

\* metric.Time of the Add calls.  Against a stored LastUpdate of 0 all are
\* beyond the window; the second is within the window of the first, the
\* third beyond the window of the first and on the edge of the second's
AddTimes ==
    { FreshnessWindow + FreshnessWindow \div 2, 2 * FreshnessWindow, 3 * FreshnessWindow }

\* LastUpdate of the definitions the durable store returns
StoreTimes == {0}

\* the scroll_id the durable store returns with its first, second, ... page
\* when more pages remain
ScrollIds == <<"s1", "s2", "s3", "s4", "s5", "s6">>

Workers == {"w1", "w2"}

\* the patterns asked of Find: a literal, a prefix and a trigram pattern
Patterns == { NameCpu, <<"a", ".", Wild>>, <<Wild, ".", "c", "p", "u">> }

\* the orgs that query: one with series of its own and one without
QueryOrgs == {1, 2}

None == "none"

\* the calls of the query path: Get(id), List(org) and Find(org, key), each
\* with the arguments it does not take left empty
Requests ==
    { [op |-> "Get", id |-> e, org |-> 0, key |-> << >>] : e \in ExtIds }
    \cup { [op |-> "List", id |-> None, org |-> o, key |-> << >>] : o \in QueryOrgs }
    \cup { [op |-> "Find", id |-> None, org |-> o, key |-> k] : o \in QueryOrgs, k \in Patterns }

\* no call
NoRequest == [op |-> None, id |-> None, org |-> 0, key |-> << >>]

(***************************************************************************)
(* schema.MetricDefinition, the fields this package touches.               *)
(***************************************************************************)
Definition(e, t) == [Id |-> e, OrgId |-> OrgOf(e), Name |-> NameOf(e), LastUpdate |-> t]

\* schema.MetricDefinitionFromMetricData(metric)
MetricDefinitionFromMetricData(m) == Definition(m.Id, m.Time)

\* a local that holds nothing yet: no *schema.MetricData, no id, and the nil
\* *schema.MetricDefinition
NoMetric == [Id |-> None, Time |-> 0]
NoId == -1
NoDef == [Id |-> None, OrgId |-> 0, Name |-> << >>, LastUpdate |-> 0]

Max(S) == CHOOSE x \in S : \A y \in S : y <= x
Min(S) == CHOOSE x \in S : \A y \in S : x <= y

(***************************************************************************)
(* Pattern Index (package idx).  keys maps (org, name) to the integer      *)
(* identifier, handed out from 0 onwards; refs counts AddRef per           *)
(* (org, id); pruned holds the trigrams whose posting lists were dropped.  *)
(***************************************************************************)
NewIdx == [keys |-> << >>, refs |-> << >>, pruned |-> {}]

KeyOf(org, name) == <<org, name>>

Trigrams(name) ==
    IF Len(name) < 3 THEN {}
    ELSE { SubSeq(name, i, i + 2) : i \in 1..(Len(name) - 2) }

\* GetOrAdd(org, key): the id of a known key, else the next id
GetOrAddId(ix, org, name) ==
    IF KeyOf(org, name) \in DOMAIN ix.keys
    THEN ix.keys[KeyOf(org, name)]
    ELSE Cardinality(DOMAIN ix.keys)

GetOrAddIdx(ix, org, name) ==
    IF KeyOf(org, name) \in DOMAIN ix.keys
    THEN ix
    ELSE [ix EXCEPT !.keys = KeyOf(org, name) :> Cardinality(DOMAIN ix.keys) @@ ix.keys]

\* AddRef(org, id): cumulative
AddRef(ix, org, id) ==
    [ix EXCEPT !.refs =
        IF <<org, id>> \in DOMAIN ix.refs
        THEN [ix.refs EXCEPT ![<<org, id>>] = @ + 1]
        ELSE <<org, id>> :> 1 @@ ix.refs]

\* the ids whose name holds the trigram, unless its posting list was dropped
Posting(ix, tri) ==
    IF tri \in ix.pruned THEN {}
    ELSE { ix.keys[k] : k \in { kk \in DOMAIN ix.keys : tri \in Trigrams(kk[2]) } }

AllTrigrams(ix) == UNION { Trigrams(k[2]) : k \in DOMAIN ix.keys }

\* Prune(pct): drop the posting lists that cover more than pct of the names
PruneIdx(ix, pct) ==
    [ix EXCEPT !.pruned =
        @ \cup { tri \in AllTrigrams(ix) :
                   Cardinality(Posting(ix, tri)) * 100 > pct * Cardinality(DOMAIN ix.keys) }]

\* the keys an org sees: its own and those of the shared scope -1; org -1
\* sees all
Visible(ix, org) == { k \in DOMAIN ix.keys : org = -1 \/ k[1] = org \/ k[1] = -1 }

\* List(org)
ListIdx(ix, org) == { ix.keys[k] : k \in Visible(ix, org) }

RECURSIVE GlobMatch(_, _)
\* whether the name matches the pattern, * standing for any run of characters
GlobMatch(pat, name) ==
    IF pat = << >> THEN name = << >>
    ELSE IF Head(pat) = Wild
         THEN \/ GlobMatch(Tail(pat), name)
              \/ name # << >> /\ GlobMatch(pat, Tail(name))
         ELSE /\ name # << >>
              /\ Head(pat) = Head(name)
              /\ GlobMatch(Tail(pat), Tail(name))

\* the kind of a pattern: no wildcard, one wildcard at the end, or any other
MatchKind(pat) ==
    IF \A i \in 1..Len(pat) : pat[i] # Wild THEN "MatchLiteral"
    ELSE IF \A i \in 1..(Len(pat) - 1) : pat[i] # Wild THEN "MatchPrefix"
    ELSE "MatchTrigram"

\* the trigrams of the fixed fragments of a pattern
PatternTrigrams(pat) ==
    { SubSeq(pat, i, i + 2) : i \in { j \in 1..(Len(pat) - 2) :
                                        \A k \in j..(j + 2) : pat[k] # Wild } }

\* candidates that take a dropped posting list for an empty one
Candidates_strict(ix, pat) ==
    { i \in { ix.keys[k] : k \in DOMAIN ix.keys } :
        \A tri \in PatternTrigrams(pat) : i \in Posting(ix, tri) }

\* the candidates of a trigram match: the ids on the posting list of every
\* trigram of the pattern whose list was not dropped
Candidates(ix, pat) ==
    { i \in { ix.keys[k] : k \in DOMAIN ix.keys } :
        \A tri \in PatternTrigrams(pat) \ ix.pruned : i \in Posting(ix, tri) }

\* Match(org, key): the kind of match and the globs {Id, Metric}
MatchIdx(ix, org, pat) ==
    LET kind == MatchKind(pat)
        hit(k) ==
            CASE kind = "MatchLiteral" -> k[2] = pat
              [] kind = "MatchPrefix" ->
                    /\ Len(k[2]) >= Len(pat) - 1
                    /\ SubSeq(k[2], 1, Len(pat) - 1) = SubSeq(pat, 1, Len(pat) - 1)
              [] OTHER -> ix.keys[k] \in Candidates(ix, pat) /\ GlobMatch(pat, k[2])
    IN  [ mt |-> kind,
          globs |-> { [Id |-> ix.keys[k], Metric |-> k[2]] : k \in { kk \in Visible(ix, org) : hit(kk) } } ]


(***************************************************************************)
(* State.                                                                  *)
(***************************************************************************)
VARIABLES
    defs,            \* dc.defs: the Definition Store
    ById,            \* dc.ById: external id -> integer identifier
    ByKey,           \* dc.ByKey: the Pattern Index
    lock,            \* the embedded sync.RWMutex: its writer and its readers
    bootPc,          \* where Backfill stands
    bootMet,         \* Backfill: the page fetched last (met)
    bootScroll,      \* Backfill: scroll_id
    total,           \* Backfill: total, the number of definitions added
    fetches,         \* number of defsStore.GetMetrics calls made
    fetchLog,        \* the GetMetrics calls: scroll_id passed, and met, scroll_id, err returned
    bootFailed,      \* Backfill logged "Could not backfill from ES"
    pc,              \* per Add caller: where it stands
    metric,          \* per Add caller: the *schema.MetricData it was given
    id,              \* per Add caller: the local id
    mdef,            \* per Add caller: the local mdef
    prunePc,         \* where the Prune goroutine stands
    prunes,          \* how many ticks of the prune timer were handled
    qPc,             \* where the caller of the query path stands
    qReq,            \* the Get, Find or List call it makes
    qRes,            \* what its last call returned
    queries,         \* how many calls of the query path returned
    metricsToEsOK,   \* counter metrics_to_es.ok
    metricsToEsFail, \* counter metrics_to_es.fail
    indexed,         \* defsStore.IndexMetric calls received, per external id and path
    calls,           \* the Add calls (external id, time) started so far
    started          \* how many Add calls were started so far

vars ==
    << defs, ById, ByKey, lock, bootPc, bootMet, bootScroll, total, fetches, fetchLog, bootFailed,
       pc, metric, id, mdef, prunePc, prunes, qPc, qReq, qRes, queries, metricsToEsOK, metricsToEsFail,
       indexed, calls, started >>

dataVars == << defs, ById, ByKey >>
bootVars == << bootPc, bootMet, bootScroll, total, fetches, fetchLog, bootFailed >>
histVars == << calls, started >>
addVars == << pc, metric, id, mdef, histVars >>
pruneVars == << prunePc, prunes >>
queryVars == << qPc, qReq, qRes, queries >>
esVars == << metricsToEsOK, metricsToEsFail, indexed >>

\* what the caller of the query path holds: the call that returned and what
\* it returned, a (def, ok) of Get, the (globs, defs) of Find or the slice of
\* List; at first nothing
NoResult ==
    [ op |-> None,
      get |-> [def |-> NoDef, ok |-> FALSE],
      find |-> [mt |-> None, globs |-> {}, defs |-> << >>],
      list |-> << >> ]

\* dc.defs[i]: Go slices count from 0
DefAt(d, i) == d[i + 1]

\* how many more operations the behaviour may start
OpsLeft == MaxOps - (total + Len(bootMet) + started + prunes + queries + (IF qPc = "idle" THEN 0 ELSE 1))

(***************************************************************************)
(* sync.RWMutex                                                            *)
(***************************************************************************)
\* an exclusive lock that does not wait for the readers
CanLock_ignoreReaders == lock.writer = None

CanLock == lock.writer = None /\ lock.readers = {}
CanRLock == lock.writer = None

Lock(p) == [lock EXCEPT !.writer = p]

\* a section that keeps the exclusive lock when it is left
Unlock_kept == lock

Unlock == [lock EXCEPT !.writer = None]
RLock(p) == [lock EXCEPT !.readers = @ \cup {p}]
RUnlock(p) == [lock EXCEPT !.readers = @ \ {p}]

(***************************************************************************)
(* New: the state after the DefCache is built, the Prune goroutine is      *)
(* started and Backfill is about to run.                                   *)
(***************************************************************************)
Init ==
    /\ defs = << >>
    /\ ById = << >>
    /\ ByKey = NewIdx
    /\ lock = [writer |-> None, readers |-> {}]
    /\ bootPc = "fetch"
    /\ bootMet = << >>
    /\ bootScroll = ""
    /\ total = 0
    /\ fetches = 0
    /\ fetchLog = << >>
    /\ bootFailed = FALSE
    /\ pc = [w \in Workers |-> "idle"]
    /\ metric = [w \in Workers |-> NoMetric]
    /\ id = [w \in Workers |-> NoId]
    /\ mdef = [w \in Workers |-> NoDef]
    /\ prunePc = "tick"
    /\ prunes = 0
    /\ qPc = "idle"
    /\ qReq = NoRequest
    /\ qRes = NoResult
    /\ queries = 0
    /\ metricsToEsOK = 0
    /\ metricsToEsFail = 0
    /\ indexed = [e \in ExtIds |-> [create |-> 0, refresh |-> 0]]
    /\ calls = {}
    /\ started = 0

\* a served cache without its Backfill
Serving_atOnce == TRUE

\* New returns the cache, and so hands it to the callers of Add, Get, Find and
\* List, once d.Backfill() has returned
Serving == bootPc = "done"

(***************************************************************************)
(* addToES: IndexMetric, then one of the two counters.                     *)
(***************************************************************************)
addToES(e, path, err) ==
    /\ indexed' = [indexed EXCEPT ![e][path] = @ + 1]
    /\ metricsToEsFail' = IF err THEN metricsToEsFail + 1 ELSE metricsToEsFail
    /\ metricsToEsOK' = IF err THEN metricsToEsOK ELSE metricsToEsOK + 1

(***************************************************************************)
(* Backfill                                                                *)
(***************************************************************************)
\* the pages the durable store may return when it has n definitions left
Pages(n) ==
    UNION { [1..k -> { Definition(e, t) : e \in ExtIds, t \in StoreTimes }] : k \in 0..n }

\* Backfill with a retry of the fetch that failed
AfterFetch_retry(err, met, scroll) ==
    IF err THEN "fetch"
    ELSE IF Len(met) > 0 THEN "lock"
    ELSE IF scroll # "" THEN "fetch" ELSE "done"

\* after GetMetrics: return on an error, else add(met), which locks only
\* for a page that holds something
AfterFetch(err, met, scroll) ==
    IF err THEN "done"
    ELSE IF Len(met) > 0 THEN "lock"
    ELSE IF scroll # "" THEN "fetch" ELSE "done"

\* a Backfill that stops after the page it has added
AfterAdd_stop(scroll) == "done"

\* for scroll_id != ""
AfterAdd(scroll) == IF scroll # "" THEN "fetch" ELSE "done"

\* met, scroll_id, err := dc.defsStore.GetMetrics(scroll_id).  The store
\* returns a page of definitions; a page that announces a next
\* page (a scroll_id that is not "") holds at least one of them.
BackfillFetch ==
    /\ bootPc = "fetch"
    /\ fetches' = fetches + 1
    /\ \E err \in BOOLEAN :
        IF err
        THEN /\ bootFailed' = TRUE
             /\ bootMet' = << >>
             /\ bootScroll' = ""
             /\ bootPc' = AfterFetch(TRUE, << >>, "")
             /\ fetchLog' = Append(fetchLog, [arg |-> bootScroll, met |-> << >>, ret |-> "", err |-> TRUE])
             /\ UNCHANGED total
        ELSE \E page \in Pages(OpsLeft), scroll \in {"", ScrollIds[fetches + 1]} :
             /\ scroll # "" => Len(page) > 0
             /\ fetchLog' = Append(fetchLog, [arg |-> bootScroll, met |-> page, ret |-> scroll, err |-> FALSE])
             /\ bootMet' = page
             /\ bootScroll' = IF AfterFetch(FALSE, page, scroll) = "done" THEN "" ELSE scroll
             /\ bootPc' = AfterFetch(FALSE, page, scroll)
             /\ UNCHANGED << bootFailed, total >>
    /\ UNCHANGED << dataVars, lock, addVars, pruneVars, queryVars, esVars >>

\* add: dc.Lock()
BackfillLock ==
    /\ bootPc = "lock"
    /\ CanLock
    /\ lock' = Lock("boot")
    /\ bootPc' = "add"
    /\ UNCHANGED << dataVars, bootMet, bootScroll, total, fetches, fetchLog, bootFailed, addVars,
                    pruneVars, queryVars, esVars >>

\* the Identity Map pointed at the position of the appended record
BackfillById_position(byId, def, i, d) == def.Id :> Len(d) @@ byId

\* dc.ById[def.Id] = id
BackfillById(byId, def, i, d) == def.Id :> i @@ byId

\* the body of the loop over met, for one def
BackfillOne(st, def) ==
    LET i == GetOrAddId(st.ByKey, def.OrgId, def.Name)
    IN  [ ByKey |-> AddRef(GetOrAddIdx(st.ByKey, def.OrgId, def.Name), def.OrgId, i),
          ById |-> BackfillById(st.ById, def, i, st.defs),
          defs |-> Append(st.defs, def) ]

RECURSIVE BackfillAll(_, _)
BackfillAll(st, met) ==
    IF met = << >> THEN st
    ELSE BackfillAll(BackfillOne(st, Head(met)), Tail(met))

\* add: the loop over met under the lock, then dc.Unlock()
BackfillAdd ==
    /\ bootPc = "add"
    /\ lock.writer = "boot"
    /\ LET st == BackfillAll([ByKey |-> ByKey, ById |-> ById, defs |-> defs], bootMet)
       IN  /\ ByKey' = st.ByKey
           /\ ById' = st.ById
           /\ defs' = st.defs
    /\ lock' = Unlock
    /\ bootPc' = AfterAdd(bootScroll)
    /\ total' = total + Len(bootMet)
    /\ bootMet' = << >>
    /\ bootScroll' = IF AfterAdd(bootScroll) = "done" THEN "" ELSE bootScroll
    /\ UNCHANGED << fetches, fetchLog, bootFailed, addVars, pruneVars, queryVars, esVars >>

(***************************************************************************)
(* Add                                                                     *)
(***************************************************************************)
\* the staleness test with the edge of the window counted as stale
IsStale_inclusive(lastUpdate, time) == lastUpdate <= time - FreshnessWindow

\* mdef.LastUpdate < metric.Time-21600, before the exclusive lock is taken;
\* both are signed 64-bit seconds, far from wrapping
IsStale(lastUpdate, time) == lastUpdate < time - FreshnessWindow

\* the stale path without its second check under the exclusive lock
StillStale_unchecked(lastUpdate, time) == TRUE

\* old.LastUpdate < metric.Time-21600, checked again under the exclusive lock
StillStale(lastUpdate, time) == IsStale(lastUpdate, time)

\* the unknown-id path without its second look at ById
BeatUsToIt_unchecked(byId, e) == FALSE

\* id, ok := dc.ById[metric.Id] under the exclusive lock: "someone beat us to it"
BeatUsToIt(byId, e) == e \in DOMAIN byId

Return(w) ==
    /\ pc' = [pc EXCEPT ![w] = "idle"]
    /\ metric' = [metric EXCEPT ![w] = NoMetric]
    /\ id' = [id EXCEPT ![w] = NoId]
    /\ mdef' = [mdef EXCEPT ![w] = NoDef]

\* a caller enters Add(metric) and takes dc.RLock(); New has returned, so
\* Backfill is over
AddCall(w) ==
    /\ Serving
    /\ pc[w] = "idle"
    /\ OpsLeft > 0
    /\ CanRLock
    /\ started' = started + 1
    /\ \E e \in ExtIds, t \in AddTimes :
        /\ metric' = [metric EXCEPT ![w] = [Id |-> e, Time |-> t]]
        /\ calls' = calls \cup {[Id |-> e, Time |-> t]}
    /\ lock' = RLock(w)
    /\ pc' = [pc EXCEPT ![w] = "lookup"]
    /\ UNCHANGED << dataVars, bootVars, id, mdef, pruneVars, queryVars, esVars >>

\* id, ok := dc.ById[metric.Id]; dc.RUnlock(); an unknown id builds its mdef
AddLookup(w) ==
    /\ pc[w] = "lookup"
    /\ lock' = RUnlock(w)
    /\ IF metric[w].Id \in DOMAIN ById
       THEN /\ id' = [id EXCEPT ![w] = ById[metric[w].Id]]
            /\ pc' = [pc EXCEPT ![w] = "rlockDef"]
            /\ UNCHANGED mdef
       ELSE /\ mdef' = [mdef EXCEPT ![w] = MetricDefinitionFromMetricData(metric[w])]
            /\ pc' = [pc EXCEPT ![w] = "lockNew"]
            /\ UNCHANGED id
    /\ UNCHANGED << dataVars, bootVars, metric, histVars, pruneVars, queryVars, esVars >>

\* dc.RLock() of the known id
AddRLockDef(w) ==
    /\ pc[w] = "rlockDef"
    /\ CanRLock
    /\ lock' = RLock(w)
    /\ pc' = [pc EXCEPT ![w] = "readDef"]
    /\ UNCHANGED << dataVars, bootVars, metric, id, mdef, histVars, pruneVars, queryVars, esVars >>

\* mdef := dc.defs[id]; dc.RUnlock(); a fresh one returns, a stale one
\* builds the new mdef
AddReadDef(w) ==
    /\ pc[w] = "readDef"
    /\ lock' = RUnlock(w)
    /\ IF IsStale(DefAt(defs, id[w]).LastUpdate, metric[w].Time)
       THEN /\ mdef' = [mdef EXCEPT ![w] = MetricDefinitionFromMetricData(metric[w])]
            /\ pc' = [pc EXCEPT ![w] = "lockStale"]
            /\ UNCHANGED << metric, id >>
       ELSE Return(w)
    /\ UNCHANGED << dataVars, bootVars, histVars, pruneVars, queryVars, esVars >>

\* dc.Lock() of the stale path
AddLockStale(w) ==
    /\ pc[w] = "lockStale"
    /\ CanLock
    /\ lock' = Lock(w)
    /\ pc' = [pc EXCEPT ![w] = "refresh"]
    /\ UNCHANGED << dataVars, bootVars, metric, id, mdef, histVars, pruneVars, queryVars, esVars >>

\* old := dc.defs[id]; if still stale: addToES and dc.defs[id] = mdef; dc.Unlock()
AddRefresh(w) ==
    /\ pc[w] = "refresh"
    /\ lock.writer = w
    /\ IF StillStale(DefAt(defs, id[w]).LastUpdate, metric[w].Time)
       THEN /\ \E err \in BOOLEAN : addToES(mdef[w].Id, "refresh", err)
            /\ defs' = [defs EXCEPT ![id[w] + 1] = mdef[w]]
       ELSE UNCHANGED << defs, esVars >>
    /\ lock' = Unlock
    /\ Return(w)
    /\ UNCHANGED << ById, ByKey, bootVars, histVars, pruneVars, queryVars >>

\* dc.Lock() of the unknown id
AddLockNew(w) ==
    /\ pc[w] = "lockNew"
    /\ CanLock
    /\ lock' = Lock(w)
    /\ pc' = [pc EXCEPT ![w] = "create"]
    /\ UNCHANGED << dataVars, bootVars, metric, id, mdef, histVars, pruneVars, queryVars, esVars >>

\* what the unknown-id path does under the lock when nobody beat it: addToES,
\* GetOrAdd, AddRef, ById, append; store says whether the in-memory part runs
CreateWith(w, err, store) ==
    LET md == mdef[w]
        i == GetOrAddId(ByKey, md.OrgId, md.Name)
    IN  /\ addToES(md.Id, "create", err)
        /\ IF store
           THEN /\ ByKey' = AddRef(GetOrAddIdx(ByKey, md.OrgId, md.Name), md.OrgId, i)
                /\ ById' = md.Id :> i @@ ById
                /\ defs' = Append(defs, md)
           ELSE UNCHANGED dataVars

\* the unknown-id path that drops the definition when IndexMetric fails
AddCreate_rollback(w) ==
    /\ pc[w] = "create"
    /\ lock.writer = w
    /\ IF BeatUsToIt(ById, metric[w].Id)
       THEN UNCHANGED << dataVars, esVars >>
       ELSE \E err \in BOOLEAN : CreateWith(w, err, ~err)
    /\ lock' = Unlock
    /\ Return(w)
    /\ UNCHANGED << bootVars, histVars, pruneVars, queryVars >>

\* the unknown-id path whose early return leaves the lock held
AddCreate_keepsLock(w) ==
    /\ pc[w] = "create"
    /\ lock.writer = w
    /\ IF BeatUsToIt(ById, metric[w].Id)
       THEN UNCHANGED << dataVars, esVars, lock >>
       ELSE /\ \E err \in BOOLEAN : CreateWith(w, err, TRUE)
            /\ lock' = Unlock
    /\ Return(w)
    /\ UNCHANGED << bootVars, histVars, pruneVars, queryVars >>

\* the unknown-id path under the exclusive lock; dc.Unlock()
AddCreate(w) ==
    /\ pc[w] = "create"
    /\ lock.writer = w
    /\ IF BeatUsToIt(ById, metric[w].Id)
       THEN UNCHANGED << dataVars, esVars >>
       ELSE \E err \in BOOLEAN : CreateWith(w, err, TRUE)
    /\ lock' = Unlock
    /\ Return(w)
    /\ UNCHANGED << bootVars, histVars, pruneVars, queryVars >>

(***************************************************************************)
(* Prune: on every tick of the timer, Lock, ByKey.Prune(0.20), Unlock       *)
(***************************************************************************)
PruneLock ==
    /\ prunePc = "tick"
    /\ OpsLeft > 0
    /\ CanLock
    /\ lock' = Lock("pruner")
    /\ prunePc' = "prune"
    /\ UNCHANGED << dataVars, bootVars, addVars, prunes, queryVars, esVars >>

PruneRun ==
    /\ prunePc = "prune"
    /\ lock.writer = "pruner"
    /\ ByKey' = PruneIdx(ByKey, PrunePct)
    /\ lock' = Unlock
    /\ prunePc' = "tick"
    /\ prunes' = prunes + 1
    /\ UNCHANGED << defs, ById, bootVars, addVars, queryVars, esVars >>

(***************************************************************************)
(* Get, Find and List: the read sections, as the values they return        *)
(***************************************************************************)
\* a Get that reports every id as found
Get_unchecked(byId, d, e) ==
    [def |-> IF e \in DOMAIN byId THEN DefAt(d, byId[e]) ELSE NoDef, ok |-> TRUE]

Get(byId, d, e) ==
    IF e \in DOMAIN byId
    THEN [def |-> DefAt(d, byId[e]), ok |-> TRUE]
    ELSE [def |-> NoDef, ok |-> FALSE]

\* the globs of ByKey.Match, each with &dc.defs[g.Id]
Find(ix, d, org, key) ==
    LET m == MatchIdx(ix, org, key)
    IN  [mt |-> m.mt, globs |-> m.globs, defs |-> [g \in m.globs |-> DefAt(d, g.Id)]]

\* &dc.defs[id] for every id of ByKey.List
List(ix, d, org) == [i \in ListIdx(ix, org) |-> DefAt(d, i)]

\* a caller of the query path enters Get, Find or List: dc.RLock()
QueryRLock ==
    /\ Serving
    /\ qPc = "idle"
    /\ OpsLeft > 0
    /\ CanRLock
    /\ \E r \in Requests : qReq' = r
    /\ lock' = RLock("q")
    /\ qPc' = "read"
    /\ UNCHANGED << dataVars, bootVars, addVars, pruneVars, qRes, queries, esVars >>

\* the read section and dc.RUnlock()
QueryRead ==
    /\ qPc = "read"
    /\ qRes' = [ op |-> qReq.op,
                 get |-> IF qReq.op = "Get" THEN Get(ById, defs, qReq.id) ELSE NoResult.get,
                 find |-> IF qReq.op = "Find"
                          THEN Find(ByKey, defs, qReq.org, qReq.key) ELSE NoResult.find,
                 list |-> IF qReq.op = "List" THEN List(ByKey, defs, qReq.org) ELSE NoResult.list ]
    /\ lock' = RUnlock("q")
    /\ qPc' = "idle"
    /\ qReq' = NoRequest
    /\ queries' = queries + 1
    /\ UNCHANGED << dataVars, bootVars, addVars, pruneVars, esVars >>

Next ==
    \/ BackfillFetch
    \/ BackfillLock
    \/ BackfillAdd
    \/ \E w \in Workers : AddCall(w)
    \/ \E w \in Workers : AddLookup(w)
    \/ \E w \in Workers : AddRLockDef(w)
    \/ \E w \in Workers : AddReadDef(w)
    \/ \E w \in Workers : AddLockStale(w)
    \/ \E w \in Workers : AddRefresh(w)
    \/ \E w \in Workers : AddLockNew(w)
    \/ \E w \in Workers : AddCreate(w)
    \/ PruneLock
    \/ PruneRun
    \/ QueryRLock
    \/ QueryRead

Spec == Init /\ [][Next]_vars

(***************************************************************************)
(* Scheduling.  A goroutine that can take its next step takes it: the Go   *)
(* scheduler runs every runnable goroutine, a call of the durable store    *)
(* returns, and a goroutine waiting for the lock gets it once the lock     *)
(* stays free for it.  Nothing obliges a caller to start a call or the     *)
(* prune timer to tick.                                                    *)
(***************************************************************************)
\* the steps of the operations that are under way
Progress ==
    \/ BackfillFetch
    \/ BackfillLock
    \/ BackfillAdd
    \/ \E w \in Workers : AddLookup(w)
    \/ \E w \in Workers : AddRLockDef(w)
    \/ \E w \in Workers : AddReadDef(w)
    \/ \E w \in Workers : AddLockStale(w)
    \/ \E w \in Workers : AddRefresh(w)
    \/ \E w \in Workers : AddLockNew(w)
    \/ \E w \in Workers : AddCreate(w)
    \/ PruneRun
    \/ QueryRead

Fairness ==
    /\ WF_vars(BackfillFetch)
    /\ WF_vars(BackfillLock)
    /\ WF_vars(BackfillAdd)
    /\ \A w \in Workers :
        /\ WF_vars(AddLookup(w))
        /\ WF_vars(AddRLockDef(w))
        /\ WF_vars(AddReadDef(w))
        /\ WF_vars(AddLockStale(w))
        /\ WF_vars(AddRefresh(w))
        /\ WF_vars(AddLockNew(w))
        /\ WF_vars(AddCreate(w))
    /\ WF_vars(PruneRun)
    /\ WF_vars(QueryRead)

FairSpec == Spec /\ Fairness

(***************************************************************************)
(* Properties                                                              *)
(***************************************************************************)
AllIdle == \A w \in Workers : pc[w] = "idle"

\* the positions of the Definition Store that hold a record of external id e
RecordsOf(e) == { i \in 1..Len(defs) : defs[i].Id = e }

\* e is registered and no Add created it: it came in through Backfill
Backfilled(e) == e \in DOMAIN ById /\ indexed[e].create = 0

CallsOf(e) == { c \in calls : c.Id = e }

\* the last-update Get(e) shows
StoredLastUpdate(e) == DefAt(defs, ById[e]).LastUpdate

(***************************************************************************)
(* C1: however many Add calls race on one external id that is not in the   *)
(* Identity Map, IndexMetric is called once for its creation and the       *)
(* Definition Store gains one record for it: no id is created more than    *)
(* once, the step that creates it appends one record of that id, an Add    *)
(* registers an id only in such a step, no other step of Add makes the     *)
(* store longer, and once the callers have returned every id that Add was  *)
(* called with is registered.                                              *)
(***************************************************************************)
C1_CreatedOnce ==
    [][ \A e \in ExtIds :
          /\ indexed'[e].create <= 1
          /\ indexed'[e].create # indexed[e].create =>
                /\ e \notin DOMAIN ById
                /\ e \in DOMAIN ById'
                /\ Len(defs') = Len(defs) + 1
                /\ defs'[Len(defs')].Id = e
                /\ SubSeq(defs', 1, Len(defs)) = defs
          /\ (bootPc = "done" /\ \A x \in ExtIds : indexed'[x].create = indexed[x].create) =>
                Len(defs') = Len(defs)
          /\ (bootPc = "done" /\ e \notin DOMAIN ById /\ e \in DOMAIN ById') =>
                indexed'[e].create = indexed[e].create + 1
          /\ (AllIdle' /\ \E c \in calls' : c.Id = e) => e \in DOMAIN ById' ]_vars

\* a caller holds the exclusive lock on the unknown-id path and finds that
\* another caller registered the same id in between
C1_Witness ==
    \E w \in Workers :
        /\ pc[w] = "create"
        /\ metric[w].Id \in DOMAIN ById
        /\ indexed[metric[w].Id].create = 1

(***************************************************************************)
(* C2: Add calls on one external id that Backfill brought, all with a time *)
(* beyond the freshness window of the last-update stored at the start.     *)
(***************************************************************************)
\* all Add calls so far are calls on e, which Backfill registered with a
\* last-update that every call's time exceeds by more than the window
StaleCallsOnly(e) ==
    /\ bootPc = "done"
    /\ Backfilled(e)
    /\ calls # {}
    /\ \A c \in calls :
        /\ c.Id = e
        /\ \A t0 \in StoreTimes : c.Time - FreshnessWindow > t0

CallTimes == { c.Time : c \in calls }

\* C2 as claimed: once the callers have returned there was exactly one
\* write-through and the stored last-update is the largest time of the calls
C2_OneRefreshToMax ==
    \A e \in ExtIds :
        (StaleCallsOnly(e) /\ AllIdle) =>
            /\ indexed[e].refresh = 1
            /\ StoredLastUpdate(e) = Max(CallTimes)

\* C2 as amended: once the callers have returned there was at least one
\* write-through and at most one per call, exactly one when the times of the
\* calls lie within the window of each other; the stored last-update is the
\* time of one of the calls and at most the window below the largest
C2_RefreshWithinWindowOfMax ==
    \A e \in ExtIds :
        (StaleCallsOnly(e) /\ AllIdle) =>
            /\ indexed[e].refresh >= 1
            /\ indexed[e].refresh <= started
            /\ Max(CallTimes) - Min(CallTimes) <= FreshnessWindow => indexed[e].refresh = 1
            /\ StoredLastUpdate(e) \in CallTimes
            /\ StoredLastUpdate(e) >= Max(CallTimes) - FreshnessWindow

\* two calls with different times on a backfilled id have returned, one
\* write-through was made and the stored last-update is the smaller time
C2_Witness ==
    \E e \in ExtIds :
        /\ StaleCallsOnly(e)
        /\ AllIdle
        /\ Cardinality(CallTimes) >= 2
        /\ indexed[e].refresh = 1
        /\ StoredLastUpdate(e) < Max(CallTimes)

(***************************************************************************)
(* C3: a step of an Add call on an external id that is in the Identity Map *)
(* and whose stored last-update is not more than the window before the     *)
(* call's time makes no write-through and leaves the Definition Store      *)
(* alone.                                                                  *)
(***************************************************************************)
C3_FreshNoWrite ==
    [][ \A w \in Workers :
          ( /\ pc[w] # "idle"
            /\ pc'[w] # pc[w]
            /\ metric[w].Id \in DOMAIN ById
            /\ metric[w].Time - FreshnessWindow <= StoredLastUpdate(metric[w].Id) )
          => UNCHANGED << defs, ById, indexed, metricsToEsOK, metricsToEsFail >> ]_vars

\* two callers are in Add at once for the same known id, both with a time on
\* the edge of or within the window of the stored last-update
C3_Witness ==
    \E w1, w2 \in Workers :
        /\ w1 # w2
        /\ pc[w1] = "readDef"
        /\ pc[w2] \in {"lookup", "rlockDef", "readDef"}
        /\ metric[w1].Id = metric[w2].Id
        /\ metric[w1].Id \in DOMAIN ById
        /\ metric[w1].Time - FreshnessWindow = StoredLastUpdate(metric[w1].Id)
        /\ metric[w2].Time - FreshnessWindow <= StoredLastUpdate(metric[w1].Id)

(***************************************************************************)
(* C4: the record at the position of every allocated integer identifier    *)
(* has the tenant and the name the identifier was allocated for.           *)
(***************************************************************************)
C4_SlotHoldsAllocatedKey ==
    \A k \in DOMAIN ByKey.keys :
        /\ ByKey.keys[k] < Len(defs)
        /\ DefAt(defs, ByKey.keys[k]).OrgId = k[1]
        /\ DefAt(defs, ByKey.keys[k]).Name = k[2]

(***************************************************************************)
(* C5: when Add returns from creating an external id that was unknown, Get *)
(* of that id finds a Definition with the name and the time Add was given. *)
(***************************************************************************)
C5_GetAfterAdd ==
    [][ \A w \in Workers :
          (pc[w] = "create" /\ pc'[w] = "idle" /\ metric[w].Id \notin DOMAIN ById) =>
             LET g == Get(ById', defs', metric[w].Id)
             IN  /\ g.ok
                 /\ g.def.Name = NameOf(metric[w].Id)
                 /\ g.def.LastUpdate = metric[w].Time ]_vars

(***************************************************************************)
(* C6: every external id is mapped to the identifier of its (tenant, name) *)
(* and the Definition Store is as long as there are allocated identifiers. *)
(***************************************************************************)
C6_OneSlotPerKey ==
    /\ \A e \in DOMAIN ById :
        /\ KeyOf(OrgOf(e), NameOf(e)) \in DOMAIN ByKey.keys
        /\ ById[e] = ByKey.keys[KeyOf(OrgOf(e), NameOf(e))]
    /\ Len(defs) = Cardinality(DOMAIN ByKey.keys)

(***************************************************************************)
(* C7: the Definition Store never holds two records of one external id     *)
(* and never gets shorter.                                                 *)
(***************************************************************************)
C7_OneRecordPerId ==
    [][ /\ Len(defs') >= Len(defs)
        /\ \A e \in ExtIds : Cardinality(RecordsOf(e)') <= 1 ]_vars

(***************************************************************************)
(* C8: an external id that has an entry in the Identity Map keeps it, with *)
(* the same integer identifier, through every step.                        *)
(***************************************************************************)
C8_ByIdAppendOnly ==
    [][ \A e \in DOMAIN ById : e \in DOMAIN ById' /\ ById'[e] = ById[e] ]_vars

\* Backfill came across an external id twice and the Prune goroutine ran
C8_Witness ==
    /\ total >= 2
    /\ defs[1].Id = defs[2].Id
    /\ defs[1].Id \in DOMAIN ById
    /\ prunes >= 1

(***************************************************************************)
(* C9: a step in which IndexMetric returns an error is the last step of an *)
(* Add that called IndexMetric once and still made its change: the new     *)
(* Definition is appended and Get finds it, or the stale one is replaced   *)
(* and shows the call's time.                                              *)
(***************************************************************************)
C9_ErrorKeepsMutation ==
    [][ metricsToEsFail' # metricsToEsFail =>
          \E w \in Workers :
             LET e == metric[w].Id
                 t == metric[w].Time
             IN  /\ pc[w] \in {"create", "refresh"}
                 /\ pc'[w] = "idle"
                 /\ metricsToEsFail' = metricsToEsFail + 1
                 /\ metricsToEsOK' = metricsToEsOK
                 /\ indexed' = [indexed EXCEPT ![e][pc[w]] = @ + 1]
                 /\ pc[w] = "create" =>
                       /\ Len(defs') = Len(defs) + 1
                       /\ defs'[Len(defs')].Id = e
                       /\ defs'[Len(defs')].LastUpdate = t
                       /\ Get(ById', defs', e).ok
                 /\ pc[w] = "refresh" =>
                       /\ Len(defs') = Len(defs)
                       /\ Get(ById', defs', e).ok
                       /\ Get(ById', defs', e).def.LastUpdate = t ]_vars

\* IndexMetric failed every time it was called, for a creation and for a
\* refresh, and both are in the cache
C9_Witness ==
    /\ metricsToEsFail = 2
    /\ metricsToEsOK = 0
    /\ \E e \in DOMAIN ById :
        /\ indexed[e].create = 1
        /\ indexed[e].refresh = 1
        /\ StoredLastUpdate(e) = Max(CallTimes)

(***************************************************************************)
(* C10: once a fetch of Backfill has failed, Backfill is over and the      *)
(* cache serves, no further fetch is made, and what the pages before       *)
(* brought is registered and stays so.                                     *)
(***************************************************************************)
C10_FetchErrorStopsBackfill ==
    [][ bootFailed' =>
          /\ bootPc' = "done"
          /\ bootFailed => fetches' = fetches /\ total' = total
          /\ ~bootFailed =>
                /\ fetches' = fetches + 1
                /\ UNCHANGED << defs, ById, ByKey, total >>
                /\ Len(defs) = total
                /\ \A i \in 1..Len(defs) : Get(ById, defs, defs[i].Id).ok
          /\ \A e \in DOMAIN ById : Get(ById', defs', e).ok ]_vars

\* a page was added, the next fetch failed, and then an Add created an
\* external id and a Get found one
C10_Witness ==
    /\ bootFailed
    /\ fetches >= 2
    /\ total >= 1
    /\ AllIdle
    /\ \E e \in ExtIds : indexed[e].create = 1
    /\ qRes.op = "Get"
    /\ qRes.get = Get(ById, defs, defs[1].Id)
    /\ qRes.get.ok

(***************************************************************************)
(* The operations inside a section of the lock, by where they stand.       *)
(***************************************************************************)
\* between dc.Lock() and dc.Unlock()
Writers ==
    (IF bootPc = "add" THEN {"boot"} ELSE {})
    \cup { w \in Workers : pc[w] \in {"create", "refresh"} }
    \cup (IF prunePc = "prune" THEN {"pruner"} ELSE {})

\* between dc.RLock() and dc.RUnlock()
Readers ==
    { w \in Workers : pc[w] \in {"lookup", "readDef"} }
    \cup (IF qPc = "read" THEN {"q"} ELSE {})

(***************************************************************************)
(* C11: at most one operation is inside an exclusive section, and while    *)
(* one is, no read section of Add, Get, Find or List is open; a step that  *)
(* changes the Identity Map, the Definition Store or the Pattern Index is  *)
(* the step of the one operation inside its exclusive section, one of      *)
(* Backfill, Prune and the two paths of Add.                               *)
(***************************************************************************)
C11_ExclusiveWrites ==
    /\ [](/\ Cardinality(Writers) <= 1
          /\ Writers # {} => Readers = {}
          /\ Writers = (IF lock.writer = None THEN {} ELSE {lock.writer})
          /\ Readers = lock.readers)
    /\ [][ dataVars' # dataVars =>
             /\ Writers = {lock.writer}
             /\ lock.writer \notin Writers'
             /\ lock.writer \in {"boot", "pruner"} \cup Workers ]_vars

\* one Add waits for the exclusive lock while another Add and a call of the
\* query path are inside their read sections
C11_Witness ==
    \E w1, w2 \in Workers :
        /\ pc[w1] \in {"lockNew", "lockStale"}
        /\ pc[w2] \in {"lookup", "readDef"}
        /\ qPc = "read"
        /\ lock.readers = {w2, "q"}

(***************************************************************************)
(* C12: Prune loses no match.  After every step that changes the Pattern   *)
(* Index, a pass of Prune or an addition, Find returns for every name the  *)
(* org sees and the pattern matches a glob of that name with a Definition; *)
(* and what Find returned before a pass of Prune it returns after it.      *)
(***************************************************************************)
C12_PruneNoFalseNegatives ==
    [][ ByKey' # ByKey =>
          \A org \in QueryOrgs, pat \in Patterns :
             LET after == Find(ByKey', defs', org, pat)
             IN  /\ \A k \in Visible(ByKey', org) :
                        GlobMatch(pat, k[2]) =>
                            /\ [Id |-> ByKey'.keys[k], Metric |-> k[2]] \in after.globs
                            /\ [Id |-> ByKey'.keys[k], Metric |-> k[2]] \in DOMAIN after.defs
                 /\ (prunePc = "prune" /\ prunePc' = "tick") =>
                        LET before == Find(ByKey, defs, org, pat)
                        IN  /\ before.globs \subseteq after.globs
                            /\ \A g \in before.globs : after.defs[g] = before.defs[g] ]_vars

\* Prune has dropped the posting list of every trigram of a pattern, and a
\* Find of that pattern is in its read section with a name to return
C12_Witness ==
    /\ prunes >= 1
    /\ qPc = "read"
    /\ qReq.op = "Find"
    /\ MatchKind(qReq.key) = "MatchTrigram"
    /\ PatternTrigrams(qReq.key) # {}
    /\ PatternTrigrams(qReq.key) \subseteq ByKey.pruned
    /\ Find(ByKey, defs, qReq.org, qReq.key).globs # {}

(***************************************************************************)
(* C13: Backfill calls GetMetrics while it holds the lock in no mode; an   *)
(* IndexMetric call is made once, by an Add inside the exclusive section   *)
(* of its unknown-id path or of its stale path; Backfill's section, Prune  *)
(* and the read sections of Get, Find and List call neither.               *)
(***************************************************************************)
C13_ExternalCallsAndLock ==
    [][ /\ (fetches' # fetches \/ fetchLog' # fetchLog) =>
              /\ bootPc = "fetch"
              /\ lock.writer # "boot"
              /\ "boot" \notin lock.readers
              /\ lock' = lock
              /\ UNCHANGED esVars
        /\ esVars' # esVars =>
              \E w \in Workers :
                 /\ lock.writer = w
                 /\ pc[w] \in {"create", "refresh"}
                 /\ indexed' = [indexed EXCEPT ![metric[w].Id][pc[w]] = @ + 1]
                 /\ metricsToEsOK' + metricsToEsFail' = metricsToEsOK + metricsToEsFail + 1
        /\ (bootPc = "add" /\ bootPc' # "add") => UNCHANGED << esVars, fetches, fetchLog >>
        /\ (prunePc # prunePc' \/ qPc # qPc') => UNCHANGED << esVars, fetches, fetchLog >> ]_vars

\* Backfill added a page under the lock and fetched the next one, and
\* afterwards an Add wrote through on its stale path
C13_Witness ==
    /\ fetches >= 2
    /\ total >= 1
    /\ ~bootFailed
    /\ \E e \in ExtIds : Backfilled(e) /\ indexed[e].refresh = 1

(***************************************************************************)
(* C14: a call of the query path changes nothing and calls nothing.  Get   *)
(* of an external id that is not in the Identity Map returns no Definition *)
(* and found = false; Find of a pattern that matches no name the org sees  *)
(* returns no glob and no Definition; List for an org that sees no name    *)
(* returns nothing.                                                        *)
(***************************************************************************)
C14_MissChangesNothing ==
    [][ (qPc = "read" /\ qPc' = "idle") =>
          /\ UNCHANGED << dataVars, esVars, fetches, fetchLog >>
          /\ qRes'.op = qReq.op
          /\ (qReq.op = "Get" /\ qReq.id \notin DOMAIN ById) =>
                /\ ~qRes'.get.ok
                /\ qRes'.get.def = NoDef
          /\ (qReq.op = "Find"
                /\ \A k \in Visible(ByKey, qReq.org) : ~GlobMatch(qReq.key, k[2])) =>
                /\ qRes'.find.globs = {}
                /\ DOMAIN qRes'.find.defs = {}
          /\ (qReq.op = "List" /\ Visible(ByKey, qReq.org) = {}) =>
                DOMAIN qRes'.list = {} ]_vars

\* a Get did not find its external id in a cache that holds a Definition of
\* another external id with the same tenant and name
C14_Witness ==
    /\ qRes.op = "Get"
    /\ Len(defs) >= 1
    /\ \E e \in ExtIds \ DOMAIN ById :
        /\ KeyOf(OrgOf(e), NameOf(e)) \in DOMAIN ByKey.keys
        /\ qRes.get = Get(ById, defs, e)
        /\ ~qRes.get.ok

(***************************************************************************)
(* C15: the first GetMetrics call passes "", every later one passes the    *)
(* scroll_id the call before returned, which was not "", and Backfill is   *)
(* over only after a call that failed or returned the scroll_id "".  When  *)
(* it is over and no call failed, the Definition Store holds the           *)
(* definitions of all pages in the order they came and Get finds the       *)
(* external id of each of them, also later on.                             *)
(***************************************************************************)
RECURSIVE Fetched(_)
\* the definitions of the pages of a log of GetMetrics calls, in order
Fetched(log) == IF log = << >> THEN << >> ELSE Head(log).met \o Fetched(Tail(log))

C15_ScrollsToTheEnd ==
    /\ [](/\ Len(fetchLog) = fetches
          /\ fetchLog # << >> => fetchLog[1].arg = ""
          /\ \A k \in 2..Len(fetchLog) :
                /\ ~fetchLog[k - 1].err
                /\ fetchLog[k - 1].ret # ""
                /\ fetchLog[k].arg = fetchLog[k - 1].ret
          /\ bootFailed <=> \E k \in 1..Len(fetchLog) : fetchLog[k].err
          /\ bootPc = "done" =>
                /\ fetchLog # << >>
                /\ fetchLog[Len(fetchLog)].err \/ fetchLog[Len(fetchLog)].ret = ""
          /\ (bootPc = "done" /\ ~bootFailed) =>
                /\ total = Len(Fetched(fetchLog))
                /\ Len(defs) >= total
                /\ \A i \in 1..total : Get(ById, defs, Fetched(fetchLog)[i].Id).ok)
    /\ [][ (bootPc # "done" /\ bootPc' = "done" /\ ~bootFailed') =>
              defs' = Fetched(fetchLog') ]_vars

\* Backfill went through three pages without a failure, the last one empty,
\* and a Get has found an external id of the second page
C15_Witness ==
    /\ bootPc = "done"
    /\ ~bootFailed
    /\ fetches = 3
    /\ fetchLog[2].met # << >>
    /\ fetchLog[3].met = << >>
    /\ qRes.op = "Get"
    /\ qRes.get = Get(ById, defs, fetchLog[2].met[1].Id)
    /\ qRes.get.ok

(***************************************************************************)
(* C16: who takes the lock while Backfill is not over.                     *)
(***************************************************************************)
\* the step takes the lock for one of the processes in P, in either mode
TakesLock(P) ==
    \/ lock'.writer # lock.writer /\ lock'.writer \in P
    \/ (lock'.readers \ lock.readers) \cap P # {}

\* Backfill has returned: its last GetMetrics call failed or returned the
\* scroll_id "", and no page is waiting to be added
BackfillOver ==
    /\ bootPc = "done"
    /\ bootMet = << >>
    /\ fetchLog # << >>
    /\ fetchLog[Len(fetchLog)].err \/ fetchLog[Len(fetchLog)].ret = ""
    /\ ~bootFailed => Len(defs) >= Len(Fetched(fetchLog))

\* C16 as claimed: no step of Add, Get, Find or List and no step of the
\* Prune goroutine takes the lock before Backfill is over
C16_NoLockBeforeBackfillEnds ==
    [][ TakesLock(Workers \cup {"q", "pruner"}) => BackfillOver ]_vars

\* C16 as amended: no step of Add, Get, Find or List takes the lock before
\* Backfill is over; the Prune goroutine, started before Backfill, takes it
\* only when nobody holds it, which may be between two pages of Backfill
C16_CallersAfterBackfill ==
    [][ /\ TakesLock(Workers \cup {"q"}) => BackfillOver
        /\ TakesLock({"pruner"}) => (lock.writer = None /\ lock.readers = {} /\ bootPc # "add") ]_vars

\* the Prune goroutine is inside its exclusive section while Backfill, with
\* one page added, waits for the lock to add the next
C16_Witness ==
    /\ prunePc = "prune"
    /\ lock.writer = "pruner"
    /\ bootPc = "lock"
    /\ total >= 1
    /\ bootMet # << >>

(***************************************************************************)
(* C17: the record at a position of the Definition Store keeps its         *)
(* external id, tenant and name through every step, and the stale path of  *)
(* Add changes nothing but the last-update of the record of the external   *)
(* id it was called with.                                                  *)
(***************************************************************************)
C17_OnlyLastUpdateChanges ==
    [][ /\ \A i \in 1..Len(defs) :
              /\ i <= Len(defs')
              /\ defs'[i].Id = defs[i].Id
              /\ defs'[i].OrgId = defs[i].OrgId
              /\ defs'[i].Name = defs[i].Name
        /\ \A w \in Workers :
              (pc[w] = "refresh" /\ defs' # defs) =>
                 \E i \in 1..Len(defs) :
                    /\ defs[i].Id = metric[w].Id
                    /\ defs' = [defs EXCEPT ![i].LastUpdate = metric[w].Time] ]_vars

(***************************************************************************)
(* C18: while nobody holds the exclusive lock, every external id of the    *)
(* Identity Map is mapped to a position of the Definition Store, and the   *)
(* record there is the record of that external id.                         *)
(***************************************************************************)
C18_ByIdPointsAtOwnRecord ==
    lock.writer = None =>
        \A e \in DOMAIN ById :
            /\ ById[e] >= 0
            /\ ById[e] < Len(defs)
            /\ DefAt(defs, ById[e]).Id = e

(***************************************************************************)
(* C19: the last-update at a position of the Definition Store never gets   *)
(* smaller.  A step changes it only as the stale path of an Add, to the    *)
(* time of that Add, which is more than the window above the value it      *)
(* replaces; an Add whose time is not more than the window above the       *)
(* stored value writes nothing when it holds the exclusive lock.           *)
(***************************************************************************)
C19_LastUpdateGrows ==
    [][ /\ \A i \in 1..Len(defs) :
              /\ i <= Len(defs')
              /\ defs'[i].LastUpdate >= defs[i].LastUpdate
              /\ defs'[i] # defs[i] =>
                    /\ defs'[i].LastUpdate - defs[i].LastUpdate > FreshnessWindow
                    /\ \E w \in Workers :
                          /\ pc[w] = "refresh"
                          /\ id[w] = i - 1
                          /\ defs'[i].LastUpdate = metric[w].Time
        /\ \A w \in Workers :
              ( /\ pc[w] = "refresh"
                /\ pc'[w] = "idle"
                /\ metric[w].Time - FreshnessWindow <= DefAt(defs, id[w]).LastUpdate )
              => UNCHANGED << defs, esVars >> ]_vars

\* an Add that found the record stale holds the exclusive lock with a time
\* older than the last-update another Add has stored in between
C19_Witness ==
    \E w \in Workers :
        /\ pc[w] = "refresh"
        /\ lock.writer = w
        /\ metric[w].Time < DefAt(defs, id[w]).LastUpdate
        /\ indexed[metric[w].Id].refresh = 1

(***************************************************************************)
(* C20: no operation gets stuck.  Whenever an operation is under way one   *)
(* of the operations under way can take a step; the lock is held only by   *)
(* operations inside their sections, so an operation that has returned     *)
(* holds nothing; and with fair scheduling every Add that was started      *)
(* returns, every page Backfill fetched is added, Backfill returns, and    *)
(* every prune pass and every read section that took the lock ends.        *)
(***************************************************************************)
UnderWay ==
    \/ bootPc # "done"
    \/ \E w \in Workers : pc[w] # "idle"
    \/ prunePc = "prune"
    \/ qPc = "read"

C20_EveryOperationCompletes ==
    /\ [](UnderWay => ENABLED Progress)
    /\ [](/\ lock.writer \in Writers \cup {None}
          /\ lock.readers \subseteq Readers)
    /\ \A w \in Workers : (pc[w] # "idle") ~> (pc[w] = "idle" /\ lock.writer # w /\ w \notin lock.readers)
    /\ (bootPc \in {"lock", "add"}) ~> (bootPc \in {"fetch", "done"} /\ lock.writer # "boot")
    /\ (bootPc # "done") ~> (bootPc = "done")
    /\ (prunePc = "prune") ~> (prunePc = "tick" /\ lock.writer # "pruner")
    /\ (qPc = "read") ~> (qPc = "idle" /\ "q" \notin lock.readers)

\* an Add holds the exclusive lock on the unknown-id path and is about to
\* take the early return, while another Add waits for the exclusive lock
C20_Witness ==
    \E w1, w2 \in Workers :
        /\ pc[w1] = "create"
        /\ lock.writer = w1
        /\ BeatUsToIt(ById, metric[w1].Id)
        /\ pc[w2] \in {"lockNew", "lockStale"}

====
